---- MODULE Spec2Model ----
(***************************************************************************)
(* Model of the hero animation core: the animation clock (useAnimation),   *)
(* its requestAnimationFrame loop, the force integrator (usePhysics) and   *)
(* the per-frame composition of a tool's transform (HammerModel).          *)
(*                                                                         *)
(* Units.  Clock times are milliseconds.  Progress values are in           *)
(* ten-thousandths (ProgressOne = 1.0).  Integrator frame deltas are in    *)
(* sixtieths of a second; forces, velocities and positions are in          *)
(* millionths of a scene unit (per second where applicable).  Math.cos,    *)
(* Math.sin and Math.pow are computed in fixed point.                      *)
(***************************************************************************)
EXTENDS Integers, Sequences, FiniteSets, TLC

VARIABLES
    cfg,             \* AnimationConfig after defaults (duration, delay, loop, ...)
    animationState,  \* animationState.current
    animationTime,   \* animationTime.current
    delayTimer,      \* delayTimer.current
    hasStarted,      \* hasStarted.current
    frameId,         \* frameId.current: 0, or 1 for the handle of the latest request
    rafPending,      \* a requestAnimationFrame(animate) callback is outstanding
    phase,           \* "rendered" (effect not yet run), "mounted", "unmounted"
    animationData,   \* the useMemo snapshot returned by useAnimation
    calls,           \* invocations of onStart/onUpdate/onComplete/onLoop since stop()
    hist,            \* the last operation, and what the claims need of the past
    physicsState,    \* physicsState.current (y components)
    isInitialized,   \* usePhysics isInitialized.current
    tool,            \* the tool group's transform and its frame count
    staggerIndex,    \* HammerModel prop
    perfConfig,      \* usePerformance config after defaults
    device,          \* what the device probe reads (user agent, deviceMemory)
    glCurrent,       \* usePerformance gl.current / scene.current: "null" or "renderer"
    currentQuality,  \* usePerformance currentQuality.current
    adaptiveTimer,   \* usePerformance adaptiveTimer.current (ms)
    fpsHistory,      \* usePerformance fpsHistory.current
    frameTimeHistory,\* usePerformance frameTimeHistory.current (ms)
    frameCount,      \* usePerformance frameCount.current
    perfPhase,       \* "rendered" (effects not yet run) or "mounted"
    perfHist,        \* the governor's last operation, and what the claims need of the past
    gestureConfig,   \* useGestures config after defaults
    gestureState,    \* useGestures gestureState.current (vectors: x components, rotation x, y, z)
    isGestureActive, \* useGestures isGestureActive.current
    gestureHist,     \* the last gesture operation and the number of operations so far
    cameraView,      \* what CameraController destructures from its useGestures/usePerformance
    isUserControlling, \* CameraController isUserControlling.current
    revertTimers,    \* pending setTimeout callbacks of handleUserInteractionTimeout
    cameraHist,      \* the camera's last operation
    now,             \* performance.now() (ms)
    tapCount,        \* GestureController tapCount.current
    lastTapTime,     \* GestureController lastTapTime.current
    gestureStartTime,\* GestureController gestureStartTime.current
    tapTimers,       \* due times of the pending single-tap timeouts, in the order set
    tapHist,         \* the presses so far and the tap actions fired
    easing,          \* a call of createEasingFunction: its arguments and its outcome
    probe            \* a call of detectDeviceCapabilities: what it reads and returns

clockVars == <<animationState, animationTime, delayTimer, hasStarted>>
loopVars == <<frameId, rafPending, phase>>
toolVars == <<physicsState, isInitialized, tool>>
animVars == <<cfg, animationState, animationTime, delayTimer, hasStarted, frameId,
              rafPending, phase, animationData, calls, hist,
              physicsState, isInitialized, tool, staggerIndex>>
governorVars == <<perfConfig, device, glCurrent, currentQuality, adaptiveTimer,
                  fpsHistory, frameTimeHistory, frameCount, perfPhase, perfHist>>
gestureVars == <<gestureConfig, gestureState, isGestureActive, gestureHist>>
cameraVars == <<cameraView, isUserControlling, revertTimers, cameraHist>>
tapVars == <<now, tapCount, lastTapTime, gestureStartTime, tapTimers, tapHist>>
utilVars == <<easing, probe>>
sceneVars == <<governorVars, gestureVars, cameraVars, tapVars, utilVars>>
nonGovernorVars == <<animVars, gestureVars, cameraVars, tapVars, utilVars>>
nonGestureVars == <<animVars, governorVars, cameraVars, tapVars, utilVars>>
nonTapVars == <<animVars, governorVars, gestureVars, cameraVars, utilVars>>
nonCameraVars == <<animVars, governorVars, gestureVars, tapVars, utilVars>>
nonUtilVars == <<animVars, governorVars, gestureVars, cameraVars, tapVars>>
vars == <<animVars, sceneVars>>

(***************************************************************************)
(* Bounds of the model.                                                    *)
(***************************************************************************)
MaxDeltaSteps == 2       \* a clock frame delta is 0..MaxDeltaSteps half durations
MaxUpdates == 3          \* no clock frame is taken beyond this many updates since stop()
MaxToolDelta == 3        \* an integrator frame delta is 0..MaxToolDelta sixtieths of a second
MaxToolFrames == 3       \* frames of the tool (and integrator steps) that are taken
MaxPending == 1          \* addForce/addTorque are not called on a longer pending list
MaxGestureOps == 4       \* gesture events and calls that are taken
MaxCameraFrames == 2     \* frames of the camera controller that are taken
MaxTapSteps == 10        \* the tap clock advances this many steps of 50 ms
MaxPresses == 3          \* presses (mouse or touch) that are taken
MaxPerfFrames == 8       \* frames the performance governor is given

(***************************************************************************)
(* Program constants.                                                      *)
(***************************************************************************)
LOOP_DURATION == 4000
FLOAT_DURATION == 2000
FLOAT_AMPLITUDE == 20
ROTATION_DURATION == 4000
STAGGER_DELAY == 200
GRAVITY_Y == -300000        \* PHYSICS_CONFIG.GRAVITY.y = -0.3
BUOYANCY_FORCE == 250000    \* 0.25
TOOL_MASS == 1
DampingPerTick == 9973      \* (1 - DAMPING) ^ (1/60), DAMPING = 0.15
AngularDampingPerTick == 9982  \* (1 - ANGULAR_DAMPING) ^ (1/60), 0.1
MaxStepTicks == 2           \* the clamp of updatePhysics, 1/30 s
TARGET_FPS == 60            \* PERFORMANCE_CONFIG.TARGET_FPS
FpsHistoryCap == 60         \* the rolling window of updateMetrics
MIN_ZOOM == 500             \* GESTURE_CONFIG.MIN_ZOOM = 0.5, in thousandths
MAX_ZOOM == 3000            \* GESTURE_CONFIG.MAX_ZOOM = 3.0
TwoPi == 6283               \* the default maxRotation, Math.PI * 2, in milliradians
TapWindow == 300            \* handleMouseDown: timeSinceLastTap < 300
TapMaxDuration == 200       \* handleMouseUp / handleTouchEnd: interactionDuration < 200
SingleTapDelay == 300       \* handleMouseUp: setTimeout(..., 300)
ProgressOne == 10000           \* progress 1.0 (rawProgress >= 1), in ten-thousandths

DeltaMs == {k * (LOOP_DURATION \div 2) : k \in 0..MaxDeltaSteps}

Min(a, b) == IF a < b THEN a ELSE b
Max(a, b) == IF a > b THEN a ELSE b
clamp(x, lo, hi) == Max(lo, Min(hi, x))

(***************************************************************************)
(* Math.sin on [0, pi], the angle in thousandths of pi, the result in      *)
(* ten-thousandths (Bhaskara's rational approximation: exact at 0, pi/2    *)
(* and pi, increasing on [0, pi/2]).                                       *)
(***************************************************************************)
SinHalfTurn(x) ==
    LET q == 4 * x * (1000 - x)
    IN (4 * q * 100) \div ((5000000 - q) \div 100)

\* Math.cos(Math.PI * t), t in ten-thousandths, for t in [0, 1]
CosPi(t) ==
    LET x == t \div 10
    IN IF x <= 500 THEN SinHalfTurn(500 - x) ELSE 0 - SinHalfTurn(x - 500)

easeInOutSine(t) == (ProgressOne - CosPi(t)) \div 2

reverseDirection(d) == IF d = "forward" THEN "reverse" ELSE "forward"

NoCalls == [onStart |-> 0, onUpdate |-> 0, onComplete |-> 0, onLoop |-> 0]

Configs ==
    [duration : {LOOP_DURATION}, delay : {0, LOOP_DURATION \div 4}, loop : BOOLEAN,
     autoplay : BOOLEAN, direction : {"forward", "reverse", "alternate"},
     onStart : BOOLEAN]

\* configurations with a duration that is not positive
InvalidConfigs ==
    [duration : {0, 0 - LOOP_DURATION}, delay : {0}, loop : BOOLEAN,
     autoplay : BOOLEAN, direction : {"forward", "reverse", "alternate"},
     onStart : {FALSE}]

DefaultConfig ==
    [duration |-> LOOP_DURATION, delay |-> 0, loop |-> TRUE, autoplay |-> TRUE,
     direction |-> "forward", onStart |-> FALSE]

InitialAnimationState(c) ==
    [isPlaying |-> c.autoplay, isPaused |-> FALSE, isComplete |-> FALSE,
     currentTime |-> 0, progress |-> 0, direction |-> c.direction, loopCount |-> 0]

\* the results of arithmetic that are not finite numbers.  NaN compares false
\* with every number: as a negative value it fails every ">=" against a
\* progress, and the operators below pass it through.
Infinity == 1000000000

NaN == 0 - 2000000000

\* the divisor of updateAnimation: the duration as destructured from the config
effectiveDuration == cfg.duration

\* x / y of two numbers in ms, in ten-thousandths
divide(x, y) ==
    IF y # 0 THEN (x * ProgressOne) \div y
    ELSE IF x = 0 THEN NaN ELSE IF x > 0 THEN Infinity ELSE 0 - Infinity

\* 1 - r
oneMinus(r) ==
    IF r = NaN THEN NaN
    ELSE IF r = Infinity \/ r = 0 - Infinity THEN 0 - r ELSE ProgressOne - r

\* raw progress currentTime / duration (1 - that in reverse), in ten-thousandths
RawProgress(ct, dir) ==
    LET fwd == divide(ct, effectiveDuration)
    IN IF dir = "reverse" THEN oneMinus(fwd) ELSE fwd

\* easing(MathUtils.clamp(rawProgress, 0, 1)): Math.max/Math.min and the sine
\* of NaN are NaN
easedProgress(raw) ==
    IF raw = NaN THEN NaN ELSE easeInOutSine(clamp(raw, 0, ProgressOne))

\* the branch of "if (rawProgress >= 1)" a tick takes
wrapsAt(raw) == raw >= ProgressOne /\ cfg.loop

completesAtAnyClock(raw) == raw >= ProgressOne

completesAt(raw) == raw >= ProgressOne /\ ~cfg.loop

(***************************************************************************)
(* updateAnimation(deltaTime): one tick of the clock, deltaMs = deltaTime  *)
(* * 1000.                                                                 *)
(***************************************************************************)
updateAnimation(deltaMs) ==
    LET s == animationState IN
    IF ~s.isPlaying \/ s.isPaused
    THEN UNCHANGED <<clockVars, calls>>
    ELSE IF delayTimer < cfg.delay
    THEN /\ delayTimer' = delayTimer + deltaMs
         /\ UNCHANGED <<animationState, animationTime, hasStarted, calls>>
    ELSE LET fireStart == ~hasStarted /\ cfg.onStart
             ct == s.currentTime + deltaMs
             raw == RawProgress(ct, s.direction)
             wraps == wrapsAt(raw)
             completes == completesAt(raw)
             raw2 == IF wraps THEN 0 ELSE IF completes THEN ProgressOne ELSE raw
         IN /\ hasStarted' = (hasStarted \/ fireStart)
            /\ animationTime' = animationTime + deltaMs
            /\ delayTimer' = delayTimer
            /\ animationState' =
                 [s EXCEPT
                    !.currentTime = IF wraps THEN 0 ELSE ct,
                    !.loopCount = IF wraps THEN @ + 1 ELSE @,
                    !.direction = IF wraps /\ cfg.direction = "alternate"
                                  THEN reverseDirection(@) ELSE @,
                    !.isComplete = IF completes THEN TRUE ELSE @,
                    !.isPlaying = IF completes THEN FALSE ELSE @,
                    !.progress = easedProgress(raw2)]
            /\ calls' =
                 [calls EXCEPT
                    !.onStart = IF fireStart THEN @ + 1 ELSE @,
                    !.onLoop = IF wraps THEN @ + 1 ELSE @,
                    !.onComplete = IF completes THEN @ + 1 ELSE @,
                    !.onUpdate = @ + 1]

\* what updateAnimation does with a tick: "tick" when it advances the clock,
\* "other" when it returns early or spends the delta on the delay
TickKind ==
    IF ~animationState.isPlaying \/ animationState.isPaused THEN "other"
    ELSE IF delayTimer < cfg.delay THEN "other" ELSE "tick"

StateKind ==
    IF animationState.isComplete THEN "complete"
    ELSE IF animationState.isPaused THEN "paused"
    ELSE IF ~animationState.isPlaying THEN "idle"
    ELSE IF delayTimer < cfg.delay THEN "delay" ELSE "playing"

Note(op) == [hist EXCEPT !.lastOp = op, !.from = "none"]

(***************************************************************************)
(* The frame-loop effect.  useFrame is a hook; called from the effect      *)
(* callback it throws (as does require in the ES-module build), so the     *)
(* catch branch runs: a requestAnimationFrame loop driving updateAnimation.*)
(***************************************************************************)
\* return () => { if (frameId.current) cancelAnimationFrame(frameId.current) }:
\* whether a request is still outstanding after the cleanup
afterCleanup == IF frameId # 0 THEN FALSE ELSE rafPending

\* the catch branch: if (isPlaying) frameId.current = requestAnimationFrame(animate)
EffectMount ==
    /\ phase = "rendered"
    /\ phase' = "mounted"
    /\ rafPending' = (rafPending \/ animationState.isPlaying)
    /\ frameId' = (IF animationState.isPlaying THEN 1 ELSE frameId)
    /\ hist' = Note("other")
    /\ UNCHANGED <<sceneVars, cfg, clockVars, animationData, calls, toolVars, staggerIndex>>

\* a re-render that changes updateAnimation's identity: cleanup, then the effect
EffectRerun ==
    /\ phase = "mounted"
    /\ rafPending' = (afterCleanup \/ animationState.isPlaying)
    /\ frameId' = (IF animationState.isPlaying THEN 1 ELSE frameId)
    /\ hist' = Note("other")
    /\ UNCHANGED <<sceneVars, cfg, clockVars, phase, animationData, calls, toolVars, staggerIndex>>

Unmount ==
    /\ phase = "mounted"
    /\ phase' = "unmounted"
    /\ rafPending' = afterCleanup
    /\ frameId' = frameId
    /\ hist' = Note("other")
    /\ UNCHANGED <<sceneVars, cfg, clockVars, animationData, calls, toolVars, staggerIndex>>

\* whether animate requests the next frame
animateAlwaysContinues(s) == TRUE

animateContinues(s) == s.isPlaying /\ ~s.isComplete

\* animate(currentTime): one requestAnimationFrame callback
AnimateFrame(deltaMs) ==
    /\ rafPending
    /\ calls.onUpdate < MaxUpdates
    /\ updateAnimation(deltaMs)
    /\ rafPending' = animateContinues(animationState')
    /\ frameId' = (IF animateContinues(animationState') THEN 1 ELSE frameId)
    /\ hist' = [Note(TickKind) EXCEPT
                  !.sinceStop = IF hist.sinceStop = -1 THEN -1 ELSE Min(@ + 1, 2)]
    /\ UNCHANGED <<sceneVars, cfg, phase, animationData, toolVars, staggerIndex>>

(***************************************************************************)
(* The controls returned by useAnimation.                                  *)
(***************************************************************************)
playAlwaysFiresStart == cfg.onStart

\* play(): whether it invokes onStart
playFiresStart == ~hasStarted /\ cfg.onStart

play ==
    /\ phase = "mounted"
    /\ animationState' = [animationState EXCEPT !.isPlaying = TRUE, !.isPaused = FALSE]
    /\ hasStarted' = (hasStarted \/ playFiresStart)
    /\ calls' = [calls EXCEPT !.onStart = IF playFiresStart THEN @ + 1 ELSE @]
    /\ hist' = [Note("play") EXCEPT !.sinceStop = -1, !.from = StateKind]
    /\ UNCHANGED <<sceneVars, cfg, animationTime, delayTimer, loopVars, animationData,
                   toolVars, staggerIndex>>

pause ==
    /\ phase = "mounted"
    /\ animationState' = [animationState EXCEPT !.isPaused = TRUE, !.isPlaying = FALSE]
    /\ hist' = Note("other")
    /\ UNCHANGED <<sceneVars, cfg, animationTime, delayTimer, hasStarted, loopVars,
                   animationData, calls, toolVars, staggerIndex>>

stoppedStateKeepsLoopCount ==
    [animationState EXCEPT !.isPlaying = FALSE, !.isPaused = FALSE,
       !.isComplete = FALSE, !.currentTime = 0, !.progress = 0]

\* the animationState fields stop() assigns
stoppedState ==
    [animationState EXCEPT !.isPlaying = FALSE, !.isPaused = FALSE,
       !.isComplete = FALSE, !.currentTime = 0, !.progress = 0, !.loopCount = 0]

stop ==
    /\ phase = "mounted"
    /\ animationState' = stoppedState
    /\ animationTime' = 0
    /\ delayTimer' = 0
    /\ hasStarted' = FALSE
    /\ calls' = NoCalls
    /\ hist' = [hist EXCEPT !.lastOp = "stop", !.from = StateKind,
                  !.sinceStop = IF @ = -1 THEN 0 ELSE @]
    /\ UNCHANGED <<sceneVars, cfg, loopVars, animationData, toolVars, staggerIndex>>

\* restart(): stop() then play()
restart ==
    /\ phase = "mounted"
    /\ animationState' = [stoppedState EXCEPT !.isPlaying = TRUE]
    /\ animationTime' = 0
    /\ delayTimer' = 0
    /\ hasStarted' = cfg.onStart
    /\ calls' = [NoCalls EXCEPT !.onStart = IF cfg.onStart THEN 1 ELSE 0]
    /\ hist' = [Note("play") EXCEPT !.sinceStop = -1, !.from = "idle"]
    /\ UNCHANGED <<sceneVars, cfg, loopVars, animationData, toolVars, staggerIndex>>

\* seek(progress), progress in ten-thousandths
seek(p) ==
    LET clampedProgress == clamp(p, 0, ProgressOne)
        t == (clampedProgress * cfg.duration) \div ProgressOne
    IN /\ phase = "mounted"
       /\ animationState' = [animationState EXCEPT !.progress = clampedProgress,
                                                   !.currentTime = t]
       /\ animationTime' = t
       /\ hist' = Note("other")
       /\ UNCHANGED <<sceneVars, cfg, delayTimer, hasStarted, loopVars, animationData, calls,
                      toolVars, staggerIndex>>

reverse ==
    /\ phase = "mounted"
    /\ animationState' =
         [animationState EXCEPT !.direction = reverseDirection(@)]
    /\ hist' = Note("other")
    /\ UNCHANGED <<sceneVars, cfg, animationTime, delayTimer, hasStarted, loopVars,
                   animationData, calls, toolVars, staggerIndex>>

SeekTargets == {0 - 5000, 5000, 15000}

(***************************************************************************)
(* The performance governor (usePerformance) after its first render.       *)
(***************************************************************************)
Levels == <<"low", "medium", "high", "ultra">>

LevelIndex(l) == CHOOSE i \in 1..Len(Levels) : Levels[i] = l

\* the configuration: monitoringInterval is the time of one frame at 20 fps
PerfConfigs ==
    [targetFPS : {TARGET_FPS, 100}, adaptiveQuality : BOOLEAN, monitoringInterval : {50}]

\* navigator.userAgent and navigator.deviceMemory as the probe reads them
Devices == [deviceType : {"mobile", "desktop"}, memoryInfo : {2, 8, 16}]

InitPerfHist == [op |-> "none", before |-> "high", requested |-> "none",
                 sinceEval |-> 0, gap |-> 0, evals |-> 0, lowStream |-> TRUE,
                 taken |-> 0, fpsArrivals |-> <<>>, frameTimeArrivals |-> <<>>]

InitPerformanceOf(c, d) ==
    /\ perfConfig = c
    /\ device = d
    /\ glCurrent = "null"
    /\ currentQuality = "high"
    /\ adaptiveTimer = 0
    /\ fpsHistory = <<>>
    /\ frameTimeHistory = <<>>
    /\ frameCount = 0
    /\ perfPhase = "rendered"
    /\ perfHist = InitPerfHist

DefaultPerfConfig ==
    [targetFPS |-> TARGET_FPS, adaptiveQuality |-> TRUE, monitoringInterval |-> 50]

DefaultDevice == [deviceType |-> "desktop", memoryInfo |-> 8]

(***************************************************************************)
(* The gesture state (useGestures) after its first render.  Zoom and pan   *)
(* are in thousandths, rotations in milliradians, pointer positions in     *)
(* pixels, the release velocity in hundredths of a pixel.                  *)
(***************************************************************************)
DefaultLimits == [minZoom |-> MIN_ZOOM, maxZoom |-> MAX_ZOOM, maxRotation |-> TwoPi]

\* the default limits, and limits a caller configures
GestureLimits ==
    {DefaultLimits, [minZoom |-> 3 * MIN_ZOOM, maxZoom |-> MAX_ZOOM, maxRotation |-> TwoPi \div 2]}

GestureConfigs ==
    [enabled : {TRUE}, pinchToZoom : {TRUE}, pan : {TRUE}, voiceCommands : BOOLEAN,
     limits : GestureLimits]

DefaultGestureConfig ==
    [enabled |-> TRUE, pinchToZoom |-> TRUE, pan |-> TRUE, voiceCommands |-> FALSE,
     limits |-> DefaultLimits]

InitGestureState ==
    [isDragging |-> FALSE, isPinching |-> FALSE, isRotating |-> FALSE, zoom |-> 1000,
     rotation |-> <<0, 0, 0>>, pan |-> 0, velocity |-> 0, lastPosition |-> 0,
     startPosition |-> 0, gestureCount |-> 0]

InitGesturesOf(c) ==
    /\ gestureConfig = c
    /\ gestureState = InitGestureState
    /\ isGestureActive = FALSE
    /\ gestureHist = [op |-> "none", ops |-> 0, drag |-> FALSE, pinch |-> FALSE]

(***************************************************************************)
(* CameraController and the tap recognition of GestureController after     *)
(* their first render.  CameraController calls useGestures() and           *)
(* usePerformance() itself and keeps the values the hooks' useMemo         *)
(* snapshots held at that render.                                          *)
(***************************************************************************)
InitCamera ==
    /\ cameraView = [isDragging |-> InitGestureState.isDragging,
                     isPinching |-> InitGestureState.isPinching,
                     zoom |-> InitGestureState.zoom,
                     quality |-> "high"]
    /\ isUserControlling = FALSE
    /\ revertTimers = 0
    /\ cameraHist = [frames |-> 0,
                     read |-> cameraView,
                     owner |-> cameraView,
                     prevOwner |-> cameraView,
                     controlling |-> FALSE]

InitTapHist == [presses |-> <<>>, down |-> "none", singleTaps |-> 0, doubleTaps |-> 0,
                inDoubleTaps |-> 0]

InitTaps ==
    /\ now = 0
    /\ tapCount = 0
    /\ lastTapTime = 0
    /\ gestureStartTime = 0
    /\ tapTimers = <<>>
    /\ tapHist = InitTapHist

\* createEasingFunction(type, direction), not yet called; "default" is the
\* omitted direction argument
EasingTypes == {"sine", "cubic", "back", "elastic", "bounce", "spring", "linear"}

EasingDirections == {"in", "out", "inOut", "default"}

InitEasingOf(type, direction) ==
    easing = [type |-> type, direction |-> direction,
              returned |-> "none", threw |-> "none", called |-> FALSE]

\* detectDeviceCapabilities(), not yet called: the device it will read and
\* the maxTextureSize of the renderer
InitProbeOf(d, textureSize) ==
    probe = [device |-> d, maxTextureSize |-> textureSize, recommendedQuality |-> "none"]

InitUtils ==
    /\ InitEasingOf("linear", "default")
    /\ InitProbeOf([deviceType |-> "desktop", memoryInfo |-> 8], 2048)

\* the other hooks and components of the scene, not yet acting
InitScene ==
    /\ InitPerformanceOf(DefaultPerfConfig, DefaultDevice)
    /\ InitGesturesOf(DefaultGestureConfig)
    /\ InitCamera
    /\ InitTaps
    /\ InitUtils

(***************************************************************************)
(* The state after the first render of the hook.                           *)
(***************************************************************************)
InitHist == [lastOp |-> "other", from |-> "none", sinceStop |-> -1]

InitClockOf(c) ==
    /\ cfg = c
    /\ animationState = InitialAnimationState(c)
    /\ animationTime = 0
    /\ delayTimer = 0
    /\ hasStarted = FALSE
    /\ frameId = 0
    /\ rafPending = FALSE
    /\ phase = "rendered"
    /\ animationData = [isPlaying |-> c.autoplay, animationTime |-> 0]
    /\ calls = NoCalls
    /\ hist = InitHist

InitTool ==
    /\ physicsState = [position |-> 0, velocity |-> 0, acceleration |-> 0,
                       rotation |-> 0, angularVelocity |-> 0,
                       angularAcceleration |-> 0, forces |-> <<>>, torques |-> <<>>]
    /\ isInitialized = FALSE
    /\ tool = [position |-> 0, rotation |-> 0, frames |-> 0,
               sampledAt |-> 0, clockAt |-> 0]

ClockInit ==
    /\ \E c \in Configs : InitClockOf(c)
    /\ InitTool
    /\ staggerIndex = 0
    /\ InitScene

ClockNext ==
    \/ EffectMount
    \/ EffectRerun
    \/ Unmount
    \/ \E d \in DeltaMs : AnimateFrame(d)
    \/ play
    \/ pause
    \/ stop
    \/ restart
    \/ \E p \in SeekTargets : seek(p)
    \/ reverse

DurationInit ==
    /\ \E c \in InvalidConfigs : InitClockOf(c)
    /\ InitTool
    /\ staggerIndex = 0
    /\ InitScene

\* the animation clock configured with a duration <= 0
DurationSpec == DurationInit /\ [][ClockNext]_vars

\* the animation clock alone, under every configuration
ClockSpec == ClockInit /\ [][ClockNext]_vars

(***************************************************************************)
(* The force integrator (usePhysics), with the configuration HammerModel   *)
(* gives it: enabled, mass TOOL_MASS, the default gravity and buoyancy.    *)
(* Vectors are their y components.                                         *)
(***************************************************************************)
ToolDeltas == 0..MaxToolDelta

RECURSIVE Sum(_)
Sum(fs) == IF fs = <<>> THEN 0 ELSE Head(fs) + Sum(Tail(fs))

\* calculateNetForce / calculateNetTorque
calculateNet(fs) == Sum(fs)

\* Math.pow(perTick / 10000, n) in ten-thousandths
RECURSIVE PowFixed(_, _)
PowFixed(perTick, n) ==
    IF n = 0 THEN ProgressOne ELSE (PowFixed(perTick, n - 1) * perTick) \div ProgressOne

clearForces(ps) == [ps EXCEPT !.forces = <<>>, !.torques = <<>>]

addForce(ps, f) == [ps EXCEPT !.forces = Append(@, f)]

addTorque(ps, t) == [ps EXCEPT !.torques = Append(@, t)]

applyGravity(ps) == addForce(ps, GRAVITY_Y * TOOL_MASS)

applyBuoyancy(ps) == addForce(ps, BUOYANCY_FORCE * TOOL_MASS)

\* integrateMotion(deltaTime), deltaTime in sixtieths of a second
integrateMotion(ps, dt) ==
    IF dt <= 0 THEN ps
    ELSE LET acc == calculateNet(ps.forces) \div TOOL_MASS
             angAcc == calculateNet(ps.torques) \div TOOL_MASS
             v == ((ps.velocity + (acc * dt) \div 60) * PowFixed(DampingPerTick, dt))
                    \div ProgressOne
             w == ((ps.angularVelocity + (angAcc * dt) \div 60)
                     * PowFixed(AngularDampingPerTick, dt)) \div ProgressOne
         IN clearForces([ps EXCEPT !.acceleration = acc,
                                   !.angularAcceleration = angAcc,
                                   !.velocity = v,
                                   !.angularVelocity = w,
                                   !.position = @ + (v * dt) \div 60,
                                   !.rotation = @ + (w * dt) \div 60])

\* updatePhysics(deltaTime) once initialized
updatePhysicsStep(ps, dt) ==
    integrateMotion(applyBuoyancy(applyGravity(ps)), Min(dt, MaxStepTicks))

\* updatePhysics(deltaTime): the first call only initializes
updatePhysics(dt) ==
    /\ isInitialized' = TRUE
    /\ physicsState' = IF isInitialized THEN updatePhysicsStep(physicsState, dt)
                       ELSE physicsState

(***************************************************************************)
(* The tool's per-frame composition (HammerModel useFrame).  Positions are *)
(* relative to the tool's base position.                                   *)
(***************************************************************************)
\* Math.sin(2 * pi * e), e in ten-thousandths of a turn
SinTurn(e) ==
    LET x == e \div 5
    IN IF x <= 1000 THEN SinHalfTurn(x) ELSE 0 - SinHalfTurn(x - 1000)

\* calculateFloatingPosition(time, base, FLOAT_AMPLITUDE).y - base.y
calculateFloatingPosition(time) ==
    LET normalizedTime == ((time % FLOAT_DURATION) * ProgressOne) \div FLOAT_DURATION
    IN SinTurn(easeInOutSine(normalizedTime)) * FLOAT_AMPLITUDE

\* calculateRotation(time, base, 'y').y in ten-thousandths of a turn
calculateRotation(time) ==
    ((time % ROTATION_DURATION) * ProgressOne) \div ROTATION_DURATION

\* calculatePhysicsMotion(time, basePosition, velocity, GRAVITY, BUOYANCY_FORCE).y
calculatePhysicsMotion(time, basePosition, velocity) ==
    LET netForce == ((GRAVITY_Y + BUOYANCY_FORCE) * time) \div 1000
        newVelocity == velocity + netForce
    IN basePosition + (newVelocity * time) \div 1000

\* the time the tool samples its motion at: the snapshot's animationTime, staggered
toolTime == animationData.animationTime + staggerIndex * STAGGER_DELAY

HammerFrame(delta) ==
    /\ phase = "mounted"
    /\ animationData.isPlaying
    /\ tool.frames < MaxToolFrames
    /\ LET floatingPosition == calculateFloatingPosition(toolTime)
           physicsPosition ==
               calculatePhysicsMotion(toolTime, floatingPosition, physicsState.velocity)
       IN tool' = [position |-> physicsPosition,
                   rotation |-> calculateRotation(toolTime),
                   frames |-> tool.frames + 1,
                   sampledAt |-> toolTime,
                   clockAt |-> animationTime]
    /\ updatePhysics(delta)
    /\ hist' = Note(IF isInitialized THEN "integrate" ELSE "other")
    /\ UNCHANGED <<sceneVars, cfg, clockVars, loopVars, animationData, calls, staggerIndex>>

\* forces and torques a caller of the hook adds between frames
AddForce(f) ==
    /\ phase = "mounted"
    /\ Len(physicsState.forces) < MaxPending
    /\ physicsState' = addForce(physicsState, f)
    /\ hist' = Note("other")
    /\ UNCHANGED <<sceneVars, cfg, clockVars, loopVars, animationData, calls, isInitialized,
                   tool, staggerIndex>>

AddTorque(t) ==
    /\ phase = "mounted"
    /\ Len(physicsState.torques) < MaxPending
    /\ physicsState' = addTorque(physicsState, t)
    /\ hist' = Note("other")
    /\ UNCHANGED <<sceneVars, cfg, clockVars, loopVars, animationData, calls, isInitialized,
                   tool, staggerIndex>>

ExtraForces == {120000}

ToolInit ==
    /\ InitClockOf(DefaultConfig)
    /\ InitTool
    /\ staggerIndex \in 0..3
    /\ InitScene

ToolNext ==
    \/ EffectMount
    \/ \E d \in DeltaMs : AnimateFrame(d)
    \/ pause
    \/ play
    \/ \E d \in ToolDeltas : HammerFrame(d)

\* a tool (HammerModel): its clock with the default configuration, paused and
\* resumed, and its per-frame transform
ToolSpec == ToolInit /\ [][ToolNext]_vars

PhysicsNext ==
    \/ EffectMount
    \/ \E d \in ToolDeltas : HammerFrame(d)
    \/ \E f \in ExtraForces : AddForce(f)
    \/ \E t \in ExtraForces : AddTorque(t)

\* a tool's integrator: the per-frame updatePhysics of HammerModel, and forces
\* and torques added between frames
PhysicsSpec == ToolInit /\ [][PhysicsNext]_vars

(***************************************************************************)
(* The performance governor (usePerformance).  Its frame-loop effect calls *)
(* useThree and useFrame from the effect callback, where a hook throws     *)
(* before gl.current and scene.current are assigned: the catch branch runs *)
(* a requestAnimationFrame loop and both refs stay null.  Frame times and  *)
(* the adaptive timer are milliseconds, frame rates frames per second.     *)
(***************************************************************************)
\* the frame rates of the frames fed to the governor (fps = 1 / deltaTime)
FrameRates == {20, 125}

\* avgFPS < targetFPS * 0.8 && avgFrameTime > 20
performsPoorly(fpsH, ftH, target) ==
    /\ Sum(fpsH) * 10 < target * 8 * Len(fpsH)
    /\ Sum(ftH) > 20 * Len(ftH)

\* avgFPS > targetFPS * 1.1 && avgFrameTime < 12
performsWell(fpsH, ftH, target) ==
    /\ Sum(fpsH) * 10 > target * 11 * Len(fpsH)
    /\ Sum(ftH) < 12 * Len(ftH)

reachesTopAtStepUpMargin(fpsH, target) == TRUE

\* avgFPS > targetFPS * 1.3
reachesTop(fpsH, target) == Sum(fpsH) * 10 > target * 13 * Len(fpsH)

adaptiveTargetDropsToLowest(level, fpsH, ftH, target) ==
    IF performsPoorly(fpsH, ftH, target) THEN "low"
    ELSE IF performsWell(fpsH, ftH, target) THEN "ultra"
    ELSE level

\* the level adaptiveQualityControl passes to adjustQuality at an evaluation
\* (the level itself where it makes no call)
adaptiveTarget(level, fpsH, ftH, target) ==
    IF performsPoorly(fpsH, ftH, target)
    THEN CASE level = "ultra" -> "high"
           [] level = "high" -> "medium"
           [] level = "medium" -> "low"
           [] OTHER -> level
    ELSE IF performsWell(fpsH, ftH, target)
    THEN CASE level = "low" -> "medium"
           [] level = "medium" -> "high"
           [] level = "high" /\ reachesTop(fpsH, target) -> "ultra"
           [] OTHER -> level
    ELSE level

\* adjustQuality(targetLevel): the value of currentQuality.current after the call
adjustQuality(level, targetLevel, glc) ==
    IF level = targetLevel \/ glc = "null" THEN level ELSE targetLevel

\* detectDeviceCapabilities().recommendedQuality
recommendedQuality(d, maxTextureSize) ==
    IF d.deviceType = "mobile" \/ d.memoryInfo < 4 THEN "low"
    ELSE IF d.memoryInfo >= 8 /\ maxTextureSize >= 4096 THEN "high"
    ELSE IF d.memoryInfo >= 16 /\ maxTextureSize >= 8192 THEN "ultra"
    ELSE "medium"

\* gl.current?.capabilities?.maxTextureSize || 2048, gl.current being null
maxTextureSize == 2048

pushSampleDropsNewest(h, x) ==
    IF Len(h) + 1 > FpsHistoryCap THEN h ELSE Append(h, x)

\* updateMetrics: push, and shift once the window is exceeded
pushSample(h, x) ==
    IF Len(h) + 1 > FpsHistoryCap THEN Tail(Append(h, x)) ELSE Append(h, x)

timerKeptAfterEvaluation(t) == t

\* adaptiveTimer.current = 0 at an evaluation
timerAfterEvaluation(t) == 0

\* the two effects of the hook: the frame loop (catch branch), then the probe
PerfMount ==
    /\ perfPhase = "rendered"
    /\ perfPhase' = "mounted"
    /\ currentQuality' =
         adjustQuality(currentQuality, recommendedQuality(device, maxTextureSize),
                       glCurrent)
    /\ perfHist' = [perfHist EXCEPT !.op = "probe", !.before = currentQuality,
                                    !.requested = recommendedQuality(device, maxTextureSize)]
    /\ UNCHANGED <<nonGovernorVars, perfConfig, device, glCurrent, adaptiveTimer,
                   fpsHistory, frameTimeHistory, frameCount>>

\* updatePerformanceFrame(deltaTime) with deltaTime = 1 / fps:
\* updateMetrics, then adaptiveQualityControl
PerfFrame(fps) ==
    /\ perfPhase = "mounted"
    /\ perfHist.taken < MaxPerfFrames
    /\ LET frameTime == 1000 \div fps
           fpsH == pushSample(fpsHistory, fps)
           ftH == pushSample(frameTimeHistory, frameTime)
           timer == adaptiveTimer + frameTime
           evaluates == perfConfig.adaptiveQuality
                          /\ timer >= perfConfig.monitoringInterval
           target == adaptiveTarget(currentQuality, fpsH, ftH, perfConfig.targetFPS)
       IN /\ fpsHistory' = fpsH
          /\ frameTimeHistory' = ftH
          /\ frameCount' = frameCount + 1
          /\ adaptiveTimer' = IF ~perfConfig.adaptiveQuality THEN adaptiveTimer
                              ELSE IF evaluates THEN timerAfterEvaluation(timer)
                              ELSE timer
          /\ currentQuality' =
               IF evaluates
               THEN adjustQuality(currentQuality, target, glCurrent)
               ELSE currentQuality
          /\ perfHist' = [op |-> IF evaluates THEN "eval" ELSE "frame",
                          before |-> currentQuality,
                          requested |-> IF evaluates /\ target # currentQuality
                                        THEN target ELSE "none",
                          sinceEval |-> IF evaluates THEN 0
                                        ELSE perfHist.sinceEval + frameTime,
                          gap |-> IF evaluates THEN perfHist.sinceEval + frameTime
                                  ELSE 0,
                          evals |-> IF evaluates THEN Min(perfHist.evals + 1, 2)
                                    ELSE perfHist.evals,
                          lowStream |-> perfHist.lowStream /\ fps = 20,
                          taken |-> perfHist.taken + 1,
                          fpsArrivals |-> Append(perfHist.fpsArrivals, fps),
                          frameTimeArrivals |->
                             Append(perfHist.frameTimeArrivals, frameTime)]
    /\ UNCHANGED <<nonGovernorVars, perfConfig, device, glCurrent, perfPhase>>

\* an explicit adjustQuality(targetLevel) by a user of the hook
AdjustQuality(targetLevel) ==
    /\ perfPhase = "mounted"
    /\ currentQuality' = adjustQuality(currentQuality, targetLevel, glCurrent)
    /\ perfHist' = [perfHist EXCEPT !.op = "adjust", !.before = currentQuality,
                                    !.requested = targetLevel, !.gap = 0]
    /\ UNCHANGED <<nonGovernorVars, perfConfig, device, glCurrent, adaptiveTimer,
                   fpsHistory, frameTimeHistory, frameCount, perfPhase>>

\* optimizeForDevice()
OptimizeForDevice ==
    /\ perfPhase = "mounted"
    /\ currentQuality' =
         adjustQuality(currentQuality, recommendedQuality(device, maxTextureSize),
                       glCurrent)
    /\ perfHist' = [perfHist EXCEPT !.op = "probe", !.before = currentQuality,
                                    !.requested = recommendedQuality(device, maxTextureSize),
                                    !.gap = 0]
    /\ UNCHANGED <<nonGovernorVars, perfConfig, device, glCurrent, adaptiveTimer,
                   fpsHistory, frameTimeHistory, frameCount, perfPhase>>

PerfInit ==
    /\ InitClockOf(DefaultConfig)
    /\ InitTool
    /\ staggerIndex = 0
    /\ \E c \in PerfConfigs, d \in Devices : InitPerformanceOf(c, d)
    /\ InitGesturesOf(DefaultGestureConfig)
    /\ InitCamera
    /\ InitTaps
    /\ InitUtils

PerfNext ==
    \/ PerfMount
    \/ \E fps \in FrameRates : PerfFrame(fps)
    \/ \E l \in {Levels[i] : i \in 1..Len(Levels)} : AdjustQuality(l)
    \/ OptimizeForDevice

\* one instance of the governor, under every configuration and device
PerfSpec == PerfInit /\ [][PerfNext]_vars

(***************************************************************************)
(* The rolling windows of updateMetrics once they fill.  The initial states *)
(* are those of a mounted governor without adaptive quality after k frames *)
(* that alternated between 20 and 125 fps; perfHist.taken counts the       *)
(* frames taken from there.                                                *)
(***************************************************************************)
WindowPrefills == {FpsHistoryCap - 2, FpsHistoryCap - 1, FpsHistoryCap}

\* the fps samples of k frames alternating between the two frame rates
prefilledFps(k) == [i \in 1..k |-> IF i % 2 = 1 THEN 20 ELSE 125]

\* frameTime = deltaTime * 1000 of the same frames
prefilledFrameTimes(k) == [i \in 1..k |-> 1000 \div prefilledFps(k)[i]]

WindowInit ==
    /\ InitClockOf(DefaultConfig)
    /\ InitTool
    /\ staggerIndex = 0
    /\ InitGesturesOf(DefaultGestureConfig)
    /\ InitCamera
    /\ InitTaps
    /\ InitUtils
    /\ perfConfig = [DefaultPerfConfig EXCEPT !.adaptiveQuality = FALSE]
    /\ device = DefaultDevice
    /\ glCurrent = "null"
    /\ currentQuality = "high"
    /\ adaptiveTimer = 0
    /\ perfPhase = "mounted"
    /\ \E k \in WindowPrefills :
         /\ fpsHistory = prefilledFps(k)
         /\ frameTimeHistory = prefilledFrameTimes(k)
         /\ frameCount = k
         /\ perfHist = [op |-> "frame", before |-> "high", requested |-> "none",
                        sinceEval |-> Sum(prefilledFrameTimes(k)), gap |-> 0,
                        evals |-> 0, lowStream |-> FALSE, taken |-> 0,
                        fpsArrivals |-> prefilledFps(k),
                        frameTimeArrivals |-> prefilledFrameTimes(k)]

\* the frame loop of a governor whose windows are about to fill
WindowSpec == WindowInit /\ [][\E fps \in FrameRates : PerfFrame(fps)]_vars

(***************************************************************************)
(* The gesture state machine (useGestures): the handlers bound to drag,    *)
(* pinch and wheel, the release damping of its frame callback, the calls   *)
(* it returns and its voice commands.                                      *)
(***************************************************************************)
PointerPositions == {0, 100}
PinchDeltas == {0 - 150, 150}
WheelDeltas == {0 - 100, 100}
ZoomTargets == {0, 2000, 9000}
RotationTargets == {<<0, 0, 0>>, <<0, 7000, 0>>, <<0 - 7000, 0, 0>>}
PanTargets == {250}
VoiceCommands == {"zoom in", "zoom out", "reset", "rotate left", "rotate right"}
GestureFrameDeltas == {1}

\* clampZoom(zoom)
clampZoom(zoom) == clamp(zoom, gestureConfig.limits.minZoom, gestureConfig.limits.maxZoom)

\* clampRotation(rotation)
clampRotation(rotation) ==
    clamp(rotation, 0 - gestureConfig.limits.maxRotation, gestureConfig.limits.maxRotation)

\* the record of the last operation; drag and pinch tell whether the gesture
\* library has a drag or a pinch in progress
Did(op) == [gestureHist EXCEPT !.op = op, !.ops = @ + 1]

GestureGuard == gestureHist.ops < MaxGestureOps

\* onDrag with first: handleDragStart
DragStart(x) ==
    /\ GestureGuard /\ ~gestureHist.drag
    /\ gestureState' = [gestureState EXCEPT !.isDragging = TRUE, !.startPosition = x,
                                            !.lastPosition = x, !.gestureCount = @ + 1]
    /\ isGestureActive' = TRUE
    /\ gestureHist' = [Did("dragStart") EXCEPT !.drag = TRUE]
    /\ UNCHANGED <<nonGestureVars, gestureConfig>>

\* onDrag, neither first nor last: handleDrag
Drag(x) ==
    /\ GestureGuard /\ gestureHist.drag
    /\ gestureState' =
         IF ~gestureState.isDragging THEN gestureState
         ELSE LET delta == x - gestureState.lastPosition
              IN [gestureState EXCEPT !.velocity = delta * 100, !.pan = @ + delta * 2,
                                      !.lastPosition = x]
    /\ gestureHist' = Did("drag")
    /\ UNCHANGED <<nonGestureVars, gestureConfig, isGestureActive>>

\* onDrag with last: handleDragEnd
DragEnd ==
    /\ GestureGuard /\ gestureHist.drag
    /\ gestureState' = [gestureState EXCEPT !.isDragging = FALSE]
    /\ isGestureActive' = FALSE
    /\ gestureHist' = [Did("dragEnd") EXCEPT !.drag = FALSE]
    /\ UNCHANGED <<nonGestureVars, gestureConfig>>

\* onPinch with first: handlePinchStart
PinchStart ==
    /\ GestureGuard /\ ~gestureHist.pinch
    /\ gestureState' = [gestureState EXCEPT !.isPinching = TRUE, !.gestureCount = @ + 1]
    /\ isGestureActive' = TRUE
    /\ gestureHist' = [Did("pinchStart") EXCEPT !.pinch = TRUE]
    /\ UNCHANGED <<nonGestureVars, gestureConfig>>

\* onPinch, neither first nor last: handlePinch, scaleDelta = delta * 0.01
Pinch(d) ==
    /\ GestureGuard /\ gestureHist.pinch
    /\ gestureState' =
         IF ~gestureState.isPinching THEN gestureState
         ELSE [gestureState EXCEPT !.zoom = clampZoom(@ + d * 10)]
    /\ gestureHist' = Did("pinch")
    /\ UNCHANGED <<nonGestureVars, gestureConfig, isGestureActive>>

\* onPinch with last: handlePinchEnd
PinchEnd ==
    /\ GestureGuard /\ gestureHist.pinch
    /\ gestureState' = [gestureState EXCEPT !.isPinching = FALSE]
    /\ isGestureActive' = FALSE
    /\ gestureHist' = [Did("pinchEnd") EXCEPT !.pinch = FALSE]
    /\ UNCHANGED <<nonGestureVars, gestureConfig>>

\* onWheel: handleWheel, wheelDelta = -delta * sensitivity.pinch * 0.001
Wheel(dy) ==
    /\ GestureGuard
    /\ gestureState' = [gestureState EXCEPT !.zoom = clampZoom(@ + (0 - dy) \div 100)]
    /\ gestureHist' = Did("wheel")
    /\ UNCHANGED <<nonGestureVars, gestureConfig, isGestureActive>>

\* velocity.multiplyScalar(dampingFactor), dampingFactor 0.95
damped(v) == IF v >= 0 THEN (v * 95) \div 100 ELSE 0 - ((0 - v) * 95) \div 100

\* the frame callback: release damping while no gesture is active
GestureFrame(dt) ==
    /\ GestureGuard
    /\ gestureState' =
         IF ~isGestureActive /\ (gestureState.velocity > 1 \/ gestureState.velocity < -1)
         THEN LET v == damped(gestureState.velocity)
              IN [gestureState EXCEPT !.velocity = v, !.pan = @ + (v * 10 * dt) \div 60]
         ELSE gestureState
    /\ gestureHist' = Did("frame")
    /\ UNCHANGED <<nonGestureVars, gestureConfig, isGestureActive>>

\* the GestureState resetGestures() leaves
resetState(gs) ==
    [gs EXCEPT !.zoom = 1000, !.rotation = <<0, 0, 0>>, !.pan = 0, !.velocity = 0,
               !.isDragging = FALSE, !.isPinching = FALSE, !.isRotating = FALSE,
               !.gestureCount = 0]

\* resetGestures()
ResetGestures ==
    /\ GestureGuard
    /\ gestureState' = resetState(gestureState)
    /\ isGestureActive' = FALSE
    /\ gestureHist' = Did("reset")
    /\ UNCHANGED <<nonGestureVars, gestureConfig>>

\* setZoom(zoom)
SetZoom(zoom) ==
    /\ GestureGuard
    /\ gestureState' = [gestureState EXCEPT !.zoom = clampZoom(zoom)]
    /\ gestureHist' = Did("setZoom")
    /\ UNCHANGED <<nonGestureVars, gestureConfig, isGestureActive>>

\* setRotation(rotation): gestureState.current.rotation.copy(rotation)
SetRotation(rotation) ==
    /\ GestureGuard
    /\ gestureState' = [gestureState EXCEPT !.rotation = rotation]
    /\ gestureHist' = Did("setRotation")
    /\ UNCHANGED <<nonGestureVars, gestureConfig, isGestureActive>>

\* setPan(pan)
SetPan(pan) ==
    /\ GestureGuard
    /\ gestureState' = [gestureState EXCEPT !.pan = pan]
    /\ gestureHist' = Did("setPan")
    /\ UNCHANGED <<nonGestureVars, gestureConfig, isGestureActive>>

\* recognition.onresult with the transcript containing command
Voice(command) ==
    /\ GestureGuard
    /\ gestureConfig.voiceCommands
    /\ gestureState' =
         CASE command = "zoom in" ->
                [gestureState EXCEPT !.zoom = clampZoom((@ * 12) \div 10)]
           [] command = "zoom out" ->
                [gestureState EXCEPT !.zoom = clampZoom((@ * 8) \div 10)]
           [] command = "reset" -> resetState(gestureState)
           [] command = "rotate left" ->
                [gestureState EXCEPT !.rotation = <<0, @[2] - 500, 0>>]
           [] command = "rotate right" ->
                [gestureState EXCEPT !.rotation = <<0, @[2] + 500, 0>>]
    /\ isGestureActive' = IF command = "reset" THEN FALSE ELSE isGestureActive
    /\ gestureHist' = Did("voice " \o command)
    /\ UNCHANGED <<nonGestureVars, gestureConfig>>

GestureInit ==
    /\ InitClockOf(DefaultConfig)
    /\ InitTool
    /\ staggerIndex = 0
    /\ InitPerformanceOf(DefaultPerfConfig, DefaultDevice)
    /\ \E c \in GestureConfigs : InitGesturesOf(c)
    /\ InitCamera
    /\ InitTaps
    /\ InitUtils

GestureNext ==
    \/ \E x \in PointerPositions : DragStart(x)
    \/ \E x \in PointerPositions : Drag(x)
    \/ DragEnd
    \/ PinchStart
    \/ \E d \in PinchDeltas : Pinch(d)
    \/ PinchEnd
    \/ \E dy \in WheelDeltas : Wheel(dy)
    \/ \E dt \in GestureFrameDeltas : GestureFrame(dt)
    \/ ResetGestures
    \/ \E z \in ZoomTargets : SetZoom(z)
    \/ \E r \in RotationTargets : SetRotation(r)
    \/ \E q \in PanTargets : SetPan(q)
    \/ \E c \in VoiceCommands : Voice(c)

\* one instance of the gesture state machine, under every configuration
GestureSpec == GestureInit /\ [][GestureNext]_vars

(***************************************************************************)
(* Tap recognition (GestureController): the mouse and touch listeners on   *)
(* the canvas and the deferred single-tap timeout.  handleSingleTap and    *)
(* handleDoubleTap are counted.                                            *)
(***************************************************************************)
\* time passes; a timeout that is due runs before the clock moves past it
TimePasses ==
    /\ now < MaxTapSteps * 50
    /\ \A i \in 1..Len(tapTimers) : tapTimers[i] > now
    /\ now' = now + 50
    /\ UNCHANGED <<nonTapVars, tapCount, lastTapTime, gestureStartTime, tapTimers, tapHist>>

\* handleMouseDown: tapCount.current after the press
tapCountAfterPress(count, timeSinceLastTap) ==
    IF timeSinceLastTap < TapWindow THEN count + 1 ELSE 1

\* handleMouseDown
MouseDown ==
    /\ tapHist.down = "none"
    /\ Len(tapHist.presses) < MaxPresses
    /\ tapCount' = tapCountAfterPress(tapCount, now - lastTapTime)
    /\ lastTapTime' = now
    /\ gestureStartTime' = now
    /\ tapHist' = [tapHist EXCEPT !.down = "mouse"]
    /\ UNCHANGED <<nonTapVars, now, tapTimers>>

\* handleMouseUp; handleDoubleTap calls gestures.resetGestures() when the ray
\* cast from the pointer hits a tool
MouseUp(hit) ==
    /\ tapHist.down = "mouse"
    /\ LET quick == now - gestureStartTime < TapMaxDuration
       IN /\ tapTimers' = IF quick /\ tapCount = 1
                          THEN Append(tapTimers, now + SingleTapDelay) ELSE tapTimers
          /\ tapCount' = IF quick /\ tapCount = 2 THEN 0 ELSE tapCount
          /\ gestureState' = IF quick /\ tapCount = 2 /\ hit
                             THEN resetState(gestureState) ELSE gestureState
          /\ isGestureActive' = IF quick /\ tapCount = 2 /\ hit
                                THEN FALSE ELSE isGestureActive
          /\ tapHist' = [tapHist EXCEPT
                           !.down = "none",
                           !.doubleTaps = IF quick /\ tapCount = 2 THEN @ + 1 ELSE @,
                           !.inDoubleTaps =
                              IF quick /\ tapCount = 2
                              THEN @ + 1 + (IF Len(tapHist.presses) > 0
                                               /\ tapHist.presses[Len(tapHist.presses)].duration
                                                     < TapMaxDuration
                                            THEN 1 ELSE 0)
                              ELSE @,
                           !.presses = Append(@, [pointer |-> "mouse",
                                                  at |-> gestureStartTime,
                                                  duration |-> now - gestureStartTime])]
    /\ UNCHANGED <<animVars, governorVars, cameraVars, utilVars, gestureConfig, gestureHist>>
    /\ UNCHANGED <<now, lastTapTime, gestureStartTime>>

\* the timeout of handleMouseUp: if (tapCount.current === 1) handleSingleTap(event)
SingleTapTimeout ==
    /\ tapTimers # <<>>
    /\ Head(tapTimers) <= now
    /\ tapTimers' = Tail(tapTimers)
    /\ tapHist' = [tapHist EXCEPT !.singleTaps = IF tapCount = 1 THEN @ + 1 ELSE @]
    /\ UNCHANGED <<nonTapVars, now, tapCount, lastTapTime, gestureStartTime>>

\* handleTouchStart with one touch
TouchStart ==
    /\ tapHist.down = "none"
    /\ Len(tapHist.presses) < MaxPresses
    /\ gestureStartTime' = now
    /\ tapHist' = [tapHist EXCEPT !.down = "touch"]
    /\ UNCHANGED <<nonTapVars, now, tapCount, lastTapTime, tapTimers>>

\* handleTouchEnd with one changed touch
TouchEnd ==
    /\ tapHist.down = "touch"
    /\ LET quick == now - gestureStartTime < TapMaxDuration
       IN tapHist' = [tapHist EXCEPT
                        !.down = "none",
                        !.singleTaps = IF quick THEN @ + 1 ELSE @,
                        !.presses = Append(@, [pointer |-> "touch",
                                               at |-> gestureStartTime,
                                               duration |-> now - gestureStartTime])]
    /\ UNCHANGED <<nonTapVars, now, tapCount, lastTapTime, gestureStartTime, tapTimers>>

TapInit ==
    /\ InitClockOf(DefaultConfig)
    /\ InitTool
    /\ staggerIndex = 0
    /\ InitScene

TapNext ==
    \/ TimePasses
    \/ MouseDown
    \/ \E hit \in BOOLEAN : MouseUp(hit)
    \/ SingleTapTimeout
    \/ TouchStart
    \/ TouchEnd

\* the tap recognition of one GestureController
TapSpec == TapInit /\ [][TapNext]_vars

(***************************************************************************)
(* The camera controller beside the gesture state machine.  CameraController*)
(* calls useGestures() and usePerformance() itself: cameraView is what its *)
(* render destructured from the memoised return values of its own hook     *)
(* instances (useMemo with deps [enabled]), whose handlers nothing binds   *)
(* and whose setters nothing calls.  gestureState is the state the gesture *)
(* handlers write.                                                         *)
(***************************************************************************)
\* what a reader of the owners' state would see at this moment
ownerView ==
    [isDragging |-> gestureState.isDragging,
     isPinching |-> gestureState.isPinching,
     zoom |-> gestureState.zoom,
     quality |-> currentQuality]

\* handleUserInteractionTimeout: whether the 2 s revert timeout is scheduled
schedulesRevert(controlling, view) ==
    controlling /\ ~view.isDragging /\ ~view.isPinching

\* applyGestureControls: isUserControlling.current after the call
controllingAfterGestures(controlling, view) ==
    IF ~view.isDragging /\ ~view.isPinching THEN controlling ELSE TRUE

\* the useFrame callback of CameraController: handleUserInteractionTimeout(),
\* then applyGestureControls(...).  The timeout callback
\* (isUserControlling.current = false) can only be scheduled from a frame
\* that starts with isUserControlling.current true.
CameraFrame ==
    /\ cameraHist.frames < MaxCameraFrames
    /\ revertTimers' = IF schedulesRevert(isUserControlling, cameraView)
                       THEN revertTimers + 1 ELSE revertTimers
    /\ isUserControlling' = controllingAfterGestures(isUserControlling, cameraView)
    /\ cameraHist' = [frames |-> cameraHist.frames + 1,
                      read |-> cameraView,
                      owner |-> ownerView,
                      prevOwner |-> cameraHist.owner,
                      controlling |-> isUserControlling']
    /\ UNCHANGED <<nonCameraVars, cameraView>>

CameraNext ==
    \/ GestureNext
    \/ CameraFrame

\* the gesture state machine with the camera controller rendering frames
CameraSpec == GestureInit /\ [][CameraNext]_vars

(***************************************************************************)
(* The easing factory (createEasingFunction).  An easing function is named *)
(* by its declaration; the three arrow functions of the factory are        *)
(* sineOut, sineIn and cubicIn.                                            *)
(***************************************************************************)
\* the functions the module declares, and the arrow functions of the factory
EasingFunctions ==
    {"easeInOutSine", "easeOutCubic", "easeInOutBack", "easeInOutElastic",
     "linear", "spring", "calculateBounce", "sineOut", "sineIn", "cubicIn"}

\* what evaluating an identifier of the factory's body yields: the function
\* bound to it, or a ReferenceError for a name the module neither declares
\* nor imports
resolve(name) == IF name \in EasingFunctions THEN name ELSE "ReferenceError"

createEasingFunction(type, direction) ==
    LET dir == IF direction = "default" THEN "inOut" ELSE direction
    IN CASE type = "sine" ->
              IF dir = "inOut" THEN resolve("easeInOutSine")
              ELSE IF dir = "out" THEN "sineOut" ELSE "sineIn"
         [] type = "cubic" ->
              IF dir = "inOut" THEN resolve("easeInOutCubic")
              ELSE IF dir = "out" THEN resolve("easeOutCubic") ELSE "cubicIn"
         [] type = "back" -> resolve("easeInOutBack")
         [] type = "elastic" -> resolve("easeInOutElastic")
         [] type = "bounce" -> resolve("calculateBounce")
         [] type = "spring" -> resolve("spring")
         [] OTHER -> resolve("linear")

\* a call createEasingFunction(easing.type, easing.direction)
CreateEasing ==
    /\ easing.returned = "none" /\ easing.threw = "none"
    /\ LET f == createEasingFunction(easing.type, easing.direction)
       IN easing' = IF f = "ReferenceError"
                    THEN [easing EXCEPT !.threw = f]
                    ELSE [easing EXCEPT !.returned = f]
    /\ UNCHANGED <<nonUtilVars, probe>>

\* the caller applies the function it was given
CallEasing ==
    /\ easing.returned \in EasingFunctions
    /\ ~easing.called
    /\ easing' = [easing EXCEPT !.called = TRUE]
    /\ UNCHANGED <<nonUtilVars, probe>>

EasingInit ==
    /\ InitClockOf(DefaultConfig)
    /\ InitTool
    /\ staggerIndex = 0
    /\ InitPerformanceOf(DefaultPerfConfig, DefaultDevice)
    /\ InitGesturesOf(DefaultGestureConfig)
    /\ InitCamera
    /\ InitTaps
    /\ \E type \in EasingTypes \cup {"quad", "expo"}, direction \in EasingDirections :
          InitEasingOf(type, direction)
    /\ InitProbeOf(DefaultDevice, maxTextureSize)

EasingNext ==
    \/ CreateEasing
    \/ CallEasing

\* the factory under every pair of arguments
EasingSpec == EasingInit /\ [][EasingNext]_vars

(***************************************************************************)
(* The device-capability probe (detectDeviceCapabilities) as a function of *)
(* what it reads: the user agent's device type, navigator.deviceMemory and *)
(* the renderer's maxTextureSize.                                          *)
(***************************************************************************)
ProbeDevices == [deviceType : {"mobile", "desktop"}, memoryInfo : {1, 2, 4, 8, 16, 32}]

TextureSizes == {1024, 2048, 4096, 8192, 16384}

\* a call detectDeviceCapabilities()
DetectDeviceCapabilities ==
    /\ probe.recommendedQuality = "none"
    /\ probe' = [probe EXCEPT
                   !.recommendedQuality = recommendedQuality(probe.device,
                                                             probe.maxTextureSize)]
    /\ UNCHANGED <<nonUtilVars, easing>>

ProbeInit ==
    /\ InitClockOf(DefaultConfig)
    /\ InitTool
    /\ staggerIndex = 0
    /\ InitPerformanceOf(DefaultPerfConfig, DefaultDevice)
    /\ InitGesturesOf(DefaultGestureConfig)
    /\ InitCamera
    /\ InitTaps
    /\ InitEasingOf("linear", "default")
    /\ \E d \in ProbeDevices, textureSize \in TextureSizes : InitProbeOf(d, textureSize)

\* the probe under every device and texture size
ProbeSpec == ProbeInit /\ [][DetectDeviceCapabilities]_vars

(***************************************************************************)
(* Properties of the animation clock (ClockSpec).                          *)
(***************************************************************************)
Idle ==
    /\ ~animationState.isPlaying
    /\ ~animationState.isPaused
    /\ ~animationState.isComplete
    /\ animationState.currentTime = 0
    /\ animationState.progress = 0
    /\ animationState.loopCount = 0
    /\ animationTime = 0
    /\ delayTimer = 0
    /\ ~hasStarted

\* C1: right after stop(), whatever state it was called in, the clock is idle:
\* not playing, not paused, not complete, with elapsed time, logical time,
\* progress, loop count and delay timer 0 and the has-started flag cleared.
StopLeavesClockIdle == hist.lastOp = "stop" => Idle

\* stop() has acted on a completed clock
StoppedFromComplete == hist.lastOp = "stop" /\ hist.from = "complete"

\* C2: for a non-looping clock onComplete is invoked at most once as long as
\* no stop() or restart() intervenes (calls counts the invocations since then).
OnCompleteFiresOnce == ~cfg.loop => calls.onComplete <= 1

\* C3: with an onStart handler, onStart is invoked exactly once per play cycle:
\* never twice between two stop() calls, once as soon as play() was called or
\* a tick passed the delay, and the has-started flag is cleared by stop() only.
OnStartOncePerCycle ==
    /\ [](cfg.onStart =>
            /\ calls.onStart <= 1
            /\ hasStarted <=> calls.onStart = 1
            /\ hist.lastOp = "play" => calls.onStart = 1
            /\ calls.onUpdate >= 1 => calls.onStart = 1)
    /\ [][hasStarted /\ ~hasStarted' => hist'.lastOp = "stop"]_vars

\* play() was called again after the first tick past the delay fired onStart
PlayedAgainAfterStart ==
    /\ cfg.onStart
    /\ cfg.delay > 0
    /\ hist.lastOp = "play"
    /\ calls.onUpdate >= 1
    /\ calls.onStart = 1

\* C4: after every tick that advances a looping clock, elapsed time lies in
\* [0, duration), and onLoop has fired once per counted wrap.
LoopWrapsIntoDuration ==
    cfg.loop /\ hist.lastOp = "tick" =>
        /\ animationState.currentTime < cfg.duration
        /\ calls.onLoop = animationState.loopCount

\* C5: for a non-looping clock, progress never decreases from one tick to the
\* next, and after a tick that brings elapsed time to the duration or beyond
\* progress is exactly 1 and the clock is complete.
NonLoopingProgressReachesOne ==
    /\ [](~cfg.loop /\ hist.lastOp = "tick"
            /\ animationState.currentTime >= cfg.duration =>
                animationState.progress = ProgressOne /\ animationState.isComplete)
    /\ [][~cfg.loop /\ hist.lastOp = "tick" /\ hist'.lastOp = "tick" =>
            animationState'.progress >= animationState.progress]_vars

\* C6: a clock configured with loop = true is never complete and never
\* invokes onComplete.
LoopingNeverCompletes ==
    cfg.loop => ~animationState.isComplete /\ calls.onComplete = 0

\* a looping clock has wrapped twice
LoopedTwice ==
    cfg.loop /\ animationState.loopCount >= 2 /\ hist.lastOp = "tick"

\* C7: a mounted clock that was ticking, was paused and is then played is
\* playing again with a frame callback outstanding, so that ticks reach it and
\* elapsed time advances from the value it had at the pause.
ResumedClockIsTicked ==
    /\ phase = "mounted"
    /\ hist.lastOp = "play"
    /\ hist.from = "paused"
    /\ calls.onUpdate >= 1
    => animationState.isPlaying /\ rafPending

\* C9: after stop() at most the one frame already requested runs and no new
\* frame is requested, however often stop() is called, and an unmounted clock
\* has no frame request outstanding.
StoppedClockHasNoFrameLoop ==
    /\ hist.sinceStop # -1 =>
          /\ hist.sinceStop <= 1
          /\ hist.sinceStop = 1 => ~rafPending
    /\ phase = "unmounted" => ~rafPending

\* stop() was called again after the one frame that was still requested ran
StoppedAgainAfterLastFrame == hist.lastOp = "stop" /\ hist.sinceStop = 1

(***************************************************************************)
(* Properties of the tool and its integrator (ToolSpec, PhysicsSpec).      *)
(***************************************************************************)
FrameStep ==
    \/ \E d \in DeltaMs : AnimateFrame(d)
    \/ \E d \in ToolDeltas : HammerFrame(d)

\* C8: while the clock is paused a frame changes nothing of the clock, fires
\* no callback, and leaves the tool's position and rotation as the last frame
\* wrote them.
PausedClockFreezesTool ==
    [][animationState.isPaused /\ tool.frames >= 1 /\ FrameStep =>
         /\ UNCHANGED <<clockVars, calls>>
         /\ tool'.position = tool.position
         /\ tool'.rotation = tool.rotation]_vars

\* C10: the pending force and torque lists are empty after every per-frame
\* integration call, whatever the frame delta.
PendingEmptyAfterIntegration ==
    hist.lastOp = "integrate" =>
        physicsState.forces = <<>> /\ physicsState.torques = <<>>

\* C11: a frame whose delta is <= 0 is skipped entirely by the integrator:
\* position, velocity and rotation are unchanged and as many forces and
\* torques are pending after the frame as before it.
NonPositiveDeltaFrameIsSkipped ==
    [][(isInitialized /\ \E d \in {t \in ToolDeltas : t <= 0} : HammerFrame(d)) =>
          /\ physicsState'.position = physicsState.position
          /\ physicsState'.velocity = physicsState.velocity
          /\ physicsState'.rotation = physicsState.rotation
          /\ Len(physicsState'.forces) = Len(physicsState.forces)
          /\ Len(physicsState'.torques) = Len(physicsState.torques)]_vars

(***************************************************************************)
(* Properties of the performance governor (PerfSpec).                      *)
(***************************************************************************)
\* C12: with adaptive quality on, target 60 and a constant 20 fps stream, the
\* first evaluation lowers the level by exactly one, and no frame of the low
\* stream raises it.
LowFpsStepsDownOneLevel ==
    (perfConfig.adaptiveQuality /\ perfConfig.targetFPS = TARGET_FPS /\ perfHist.lowStream)
    => /\ (perfHist.op = "eval" /\ perfHist.evals = 1 /\ perfHist.before # "low")
            => LevelIndex(currentQuality) = LevelIndex(perfHist.before) - 1
       /\ perfHist.op \in {"eval", "frame"}
            => LevelIndex(currentQuality) <= LevelIndex(perfHist.before)

\* C13: the level is always one of low < medium < high < ultra, and the
\* adaptive loop moves it, and asks to move it, to an adjacent level only;
\* only an explicit adjustQuality (or the device probe) may move further.
AdaptiveLoopMovesToAdjacentLevel ==
    /\ \E i \in 1..Len(Levels) : currentQuality = Levels[i]
    /\ perfHist.op \in {"eval", "frame"} =>
         /\ LevelIndex(currentQuality) - LevelIndex(perfHist.before) \in {-1, 0, 1}
         /\ perfHist.requested # "none" =>
              LevelIndex(perfHist.requested) - LevelIndex(perfHist.before) \in {-1, 1}

\* an evaluation of a poor stream at high asked for medium
AdaptiveLoopAskedOneStepDown ==
    /\ perfHist.op = "eval"
    /\ perfHist.before = "high"
    /\ perfHist.requested = "medium"

\* C14: the adaptive loop changes the level, or asks to, only at an evaluation,
\* once per evaluation, and between two consecutive evaluations at least
\* monitoringInterval milliseconds of frame time accumulate.
AdaptiveChangesAreRateLimited ==
    /\ perfHist.op = "eval" => perfHist.gap >= perfConfig.monitoringInterval
    /\ perfHist.op = "frame" =>
         currentQuality = perfHist.before /\ perfHist.requested = "none"

\* a second evaluation, reached over frames shorter than the interval
EvaluatedTwiceOverShortFrames ==
    /\ perfHist.op = "eval"
    /\ perfHist.evals = 2
    /\ perfHist.gap > perfConfig.monitoringInterval
    /\ perfHist.requested # "none"

\* C15: the adaptive loop goes (and asks to go) from high to ultra only at an
\* evaluation with avgFPS > 1.3 * targetFPS besides avgFPS > 1.1 * targetFPS and
\* avgFrameTime < 12 ms; from low and from medium the 1.1 margin is enough; with
\* 1.1 * target < avgFPS <= 1.3 * target a governor at high stays at high.
TopLevelNeedsWiderMargin ==
    LET n == Len(fpsHistory)
        above11 == Sum(fpsHistory) * 10 > perfConfig.targetFPS * 11 * n
        above13 == Sum(fpsHistory) * 10 > perfConfig.targetFPS * 13 * n
        under12ms == Sum(frameTimeHistory) < 12 * n
        up == [l \in {"low", "medium"} |-> IF l = "low" THEN "medium" ELSE "high"]
    IN perfHist.op = "eval" =>
         /\ (perfHist.requested = "ultra" \/ currentQuality = "ultra")
              => perfHist.before = "high" /\ above11 /\ above13 /\ under12ms
         /\ (perfHist.before = "high" /\ above11 /\ ~above13)
              => currentQuality = "high" /\ perfHist.requested = "none"
         /\ (perfHist.before \in {"low", "medium"} /\ above11 /\ under12ms)
              => perfHist.requested = up[perfHist.before]

\* an evaluation at high with the average inside the two margins
HighKeptBetweenTheMargins ==
    /\ perfHist.op = "eval"
    /\ perfHist.before = "high"
    /\ Sum(fpsHistory) * 10 > perfConfig.targetFPS * 11 * Len(fpsHistory)
    /\ Sum(fpsHistory) * 10 <= perfConfig.targetFPS * 13 * Len(fpsHistory)
    /\ Sum(frameTimeHistory) < 12 * Len(frameTimeHistory)

(***************************************************************************)
(* Properties of the gesture state (GestureSpec).                          *)
(***************************************************************************)
\* C16: after setZoom, a pinch update, a wheel event, a voice zoom command or
\* a reset, the zoom lies in [minZoom, maxZoom].
ZoomStaysWithinLimits ==
    gestureHist.op \in {"setZoom", "pinch", "wheel", "voice zoom in", "voice zoom out",
                        "reset", "voice reset"}
    => /\ gestureState.zoom >= gestureConfig.limits.minZoom
       /\ gestureState.zoom <= gestureConfig.limits.maxZoom

\* C17: every write to the rotation is clamped: after setRotation or a voice
\* command "rotate left" / "rotate right" each component lies in
\* [-maxRotation, maxRotation].
RotationStaysWithinLimit ==
    gestureHist.op \in {"setRotation", "voice rotate left", "voice rotate right"}
    => \A i \in 1..3 :
         /\ gestureState.rotation[i] >= 0 - gestureConfig.limits.maxRotation
         /\ gestureState.rotation[i] <= gestureConfig.limits.maxRotation

(***************************************************************************)
(* Properties of the tap recognition (TapSpec).                            *)
(***************************************************************************)
\* C18: two taps 150 ms apart, by mouse or by touch, fire exactly one
\* double-tap action and no single-tap action.
TwoQuickTapsFireOneDoubleTap ==
    LET p == tapHist.presses
    IN (/\ Len(p) = 2
        /\ p[1].pointer = p[2].pointer
        /\ p[1].duration < TapMaxDuration /\ p[2].duration < TapMaxDuration
        /\ p[2].at - p[1].at = 150
        /\ tapHist.down = "none"
        /\ tapTimers = <<>>)
       => tapHist.doubleTaps = 1 /\ tapHist.singleTaps = 0

(***************************************************************************)
(* Properties of the camera controller (CameraSpec).                       *)
(***************************************************************************)
\* C19: at a frame where a drag or a pinch is active the camera controller
\* is in user-controlled mode (and only leaves it through the 2 s timeout
\* after the release).
ActiveGestureDrivesCamera ==
    (/\ cameraHist.frames > 0
     /\ (cameraHist.owner.isDragging \/ cameraHist.owner.isPinching))
    => cameraHist.controlling

\* C20: in a frame the camera controller observes the quality level of the
\* governor and the GestureState that the gesture handlers write.
CameraReadsTheOwnersState ==
    cameraHist.frames > 0 => cameraHist.read = cameraHist.owner

(***************************************************************************)
(* Properties of the easing factory (EasingSpec).                          *)
(***************************************************************************)
\* C21: createEasingFunction never throws: every (type, direction) pair
\* yields a callable easing function, and an unknown type yields linear.
EasingFactoryNeverThrows ==
    /\ easing.threw = "none"
    /\ easing.returned # "none" =>
          /\ easing.returned \in EasingFunctions
          /\ easing.type \notin EasingTypes => easing.returned = "linear"

(***************************************************************************)
(* Properties of the clock under an invalid duration (DurationSpec).       *)
(***************************************************************************)
\* C22: a clock configured with a duration <= 0 ticks against a safe
\* positive duration, and its progress stays a defined value in [0, 1].
InvalidDurationIsFloored ==
    hist.lastOp = "tick" =>
       /\ effectiveDuration > 0
       /\ animationState.progress \in 0..ProgressOne

\* C23: the frame after a release finds the controller user-controlled with
\* its 2 s revert timeout pending, the timeout that is re-validated when it
\* fires (no revert if a new drag or pinch started, none earlier than 2 s
\* after the most recent release).
ReleaseLeavesRevalidatedRevertPending ==
    (/\ cameraHist.frames > 1
     /\ (cameraHist.prevOwner.isDragging \/ cameraHist.prevOwner.isPinching)
     /\ ~cameraHist.owner.isDragging /\ ~cameraHist.owner.isPinching)
    => cameraHist.controlling /\ revertTimers > 0

(***************************************************************************)
(* Properties of the rolling windows (WindowSpec).                         *)
(***************************************************************************)
\* C24: the fps and frame-time histories hold at most 60 samples, have equal
\* length, and are exactly the most recent samples in arrival order.
HistoriesAreFifoWindows ==
    LET LastArrivals(log) ==
          SubSeq(log, Len(log) - Min(Len(log), FpsHistoryCap) + 1, Len(log))
    IN /\ Len(fpsHistory) <= FpsHistoryCap
       /\ Len(fpsHistory) = Len(frameTimeHistory)
       /\ fpsHistory = LastArrivals(perfHist.fpsArrivals)
       /\ frameTimeHistory = LastArrivals(perfHist.frameTimeArrivals)

\* samples were evicted and the newest sample is in the window
OldestSamplesEvicted ==
    /\ Len(perfHist.fpsArrivals) >= FpsHistoryCap + 2
    /\ perfHist.taken >= 2
    /\ Len(fpsHistory) = FpsHistoryCap

(***************************************************************************)
(* Properties of the staggered tools (ToolSpec, one behaviour per stagger  *)
(* index 0..3).                                                            *)
(***************************************************************************)
\* C25: at every frame the tool with stagger index i samples its floating
\* motion at the clock's time + i * 200 ms, so that the phases of two tools
\* differ by the stagger fraction of the float duration.
ToolSamplesStaggeredClockTime ==
    tool.frames > 0 =>
       tool.sampledAt = tool.clockAt + staggerIndex * STAGGER_DELAY

(***************************************************************************)
(* Further properties of the animation clock (ClockSpec).                  *)
(***************************************************************************)
\* C26: at most one of isPlaying, isPaused and isComplete is true, so the
\* flags encode one of idle, playing, paused and complete.
AtMostOneClockFlag ==
    /\ ~(animationState.isPlaying /\ animationState.isPaused)
    /\ ~(animationState.isPlaying /\ animationState.isComplete)
    /\ ~(animationState.isPaused /\ animationState.isComplete)

\* C27: a looping clock configured with direction 'reverse' or 'alternate'
\* keeps wrapping under continued ticks, so its elapsed time stays bounded
\* by the duration.
ReverseLoopStaysWithinDuration ==
    (cfg.loop /\ cfg.direction \in {"reverse", "alternate"})
    => animationState.currentTime <= cfg.duration

\* C28: for any sequence of mouse taps, the single-tap actions fired never
\* exceed the taps that were not part of a double-tap (three quick taps give
\* one double-tap and at most one single-tap).
MouseTapsFireAtMostOneActionEach ==
    LET p == tapHist.presses
        taps == Cardinality({i \in 1..Len(p) : p[i].duration < TapMaxDuration})
    IN (tapHist.down # "touch" /\ \A i \in 1..Len(p) : p[i].pointer = "mouse")
       => tapHist.singleTaps <= taps - tapHist.inDoubleTaps

(***************************************************************************)
(* Further properties of the gesture state machine (GestureSpec).          *)
(***************************************************************************)
\* C29: isGestureActive is true exactly when isDragging, isPinching or
\* isRotating is true, also while gestures overlap.
GestureActiveIsTheDisjunction ==
    isGestureActive <=>
       (gestureState.isDragging \/ gestureState.isPinching \/ gestureState.isRotating)

====
